---- MODULE Spec2Model ----
(***************************************************************************)
(* State-machine model of the timeline / playback core of the editor:      *)
(* the App component (clip store, cursor, selection, generation),          *)
(* the Player's composition resolver, its audio pool, sync effects and     *)
(* main clock, and the Timeline's drag sessions.                           *)
(*                                                                         *)
(* Time is fixed point: one unit is 1/20 s, the time one pixel stands for  *)
(* (PIXELS_PER_SECOND = 20), so 0.1 s = 2, 0.5 s = 10, 1 s = 20.  The      *)
(* arithmetic of the handlers is exact on these values; floating-point     *)
(* rounding of the JavaScript numbers is not modelled.                     *)
(***************************************************************************)
EXTENDS Integers, Sequences, FiniteSets

VARIABLES
    clips,           \* App: useState<Clip[]>            (part_000:14)
    currentTime,     \* App: useState(0)                 (part_000:15)
    isPlaying,       \* App: useState(false)             (part_000:16)
    selectedClipId,  \* App: useState<string|null>(null) (part_000:17)
    isGenerating,    \* App: useState(false)             (part_000:26)
    aiMode,          \* App: useState('video')           (part_000:25)
    dragState,       \* Timeline: useState<DragState|null>(null) (part_001:199)
    isScrubbing,     \* Timeline: useState(false)        (part_001:200)
    pendingImport,   \* the video element of handleFileUpload awaiting onloadedmetadata
    gen,             \* the in-flight call of handleAIGenerate and its callbacks
    nextId,          \* crypto.randomUUID(): the next unused clip id
    nextUrl,         \* URL.createObjectURL(): the next unused blob url
    audioRefs,       \* Player: the keys of audioRefs.current  (part_001:16)
    interval,        \* Player: the interval of the main clock and its closure
    events           \* the number of events handled so far

vars == <<clips, currentTime, isPlaying, selectedClipId, isGenerating, aiMode,
          dragState, isScrubbing, pendingImport, gen, nextId, nextUrl, audioRefs,
          interval, events>>

-----------------------------------------------------------------------------
(* Bounds of the model *)

\* the number of events (user gestures, timer ticks, completions of asynchronous
\* work) of one behaviour
MaxEvents == 8

(* Units and program constants *)

UnitsPerSecond == 20
PIXELS_PER_SECOND == 20
TRACK_HEIGHT == 64
TRACK_GAP == 8

\* seconds (given in tenths) to time units
Tenths(n) == (n * UnitsPerSecond) \div 10

minDuration == Tenths(5)
ClockQuantum == Tenths(1)
TrimStep == Tenths(10)
DefaultGenDuration == Tenths(50)
FallbackGenDuration == Tenths(100)

(* Inputs *)

\* native durations of imported files: 0.3 s and 1.2 s
FileDurations == {6, 24}
\* durations a generated media element reports; 0 stands for a falsy duration (NaN, 0)
GenDurations == {0, 24}
FileTypes == {"video", "audio"}
\* pointer positions: one mouse-down point, the points a move event can report
DownXs == {200}
DownYs == {100}
MoveXs == {180, 200, 220}
MoveYs == {28, 100, 136}
\* x = clientX - rect.left + scrollLeft of a scrub, in pixels
ScrubXs == {-10, 10, 30}

NULL == 0

Max(a, b) == IF a >= b THEN a ELSE b
Min(a, b) == IF a <= b THEN a ELSE b

\* Math.round of n / d for d > 0: the nearest integer, a tie going up
MathRound(n, d) == (2 * n + d) \div (2 * d)

-----------------------------------------------------------------------------
(* Clip store helpers *)

\* clips.find(c => c.id === id): the index of the first match, 0 for undefined
FindIndex(cs, id) ==
    IF \E i \in DOMAIN cs : cs[i].id = id
    THEN CHOOSE i \in DOMAIN cs :
            cs[i].id = id /\ \A j \in DOMAIN cs : cs[j].id = id => i <= j
    ELSE 0

HasClip(cs, id) == FindIndex(cs, id) # 0

\* { ...c, ...updates }
Merge(c, updates) ==
    [f \in DOMAIN c |-> IF f \in DOMAIN updates THEN updates[f] ELSE c[f]]

\* prev.filter(c => keep(c)), on ids
RECURSIVE FilterOutId(_, _)
FilterOutId(cs, id) ==
    IF cs = <<>> THEN <<>>
    ELSE IF Head(cs).id # id
         THEN <<Head(cs)>> \o FilterOutId(Tail(cs), id)
         ELSE FilterOutId(Tail(cs), id)

clipEnd(c) == c.startOffset + (c.trimEnd - c.trimStart)

\* clips.reduce((acc, clip) => Math.max(acc, clip.startOffset + (trimEnd - trimStart)), 0)
RECURSIVE totalDuration(_)
totalDuration(cs) ==
    IF cs = <<>> THEN 0
    ELSE Max(totalDuration(SubSeq(cs, 1, Len(cs) - 1)), clipEnd(cs[Len(cs)]))

-----------------------------------------------------------------------------
(* App: the synchronous handlers, as functions of the state they read *)

\* prev.map(c => c.id === id ? replacement : c)
MapReplace(cs, id, replacement) ==
    [k \in DOMAIN cs |-> IF cs[k].id = id THEN replacement ELSE cs[k]]

\* the Clip literal of handleFileUpload and handleAIGenerate
NewClip(id, url, type, name, duration, startOffset) ==
    [id |-> id, fileUrl |-> url, type |-> type, name |-> name,
     duration |-> duration, startOffset |-> startOffset, trackIndex |-> 0,
     trimStart |-> 0, trimEnd |-> duration, volume |-> 1, isMuted |-> FALSE]

\* a variant of handleDeleteClip that leaves the selection on the deleted id
handleDeleteClipKeepsSelection(cs, sel) ==
    [clips |-> FilterOutId(cs, sel), selectedClipId |-> sel]

\* handleDeleteClip: the store and the selection it leaves
handleDeleteClip(cs, sel) ==
    IF sel # NULL
    THEN [clips |-> FilterOutId(cs, sel), selectedClipId |-> NULL]
    ELSE [clips |-> cs, selectedClipId |-> sel]

\* a variant of handleUpdateClip that falls back to the first clip for an unknown id
handleUpdateClipOrFirst(cs, id, updates) ==
    IF \E k \in DOMAIN cs : cs[k].id = id
    THEN [k \in DOMAIN cs |-> IF cs[k].id = id THEN Merge(cs[k], updates) ELSE cs[k]]
    ELSE [k \in DOMAIN cs |-> IF k = 1 THEN Merge(cs[k], updates) ELSE cs[k]]

\* handleUpdateClip
handleUpdateClip(cs, id, updates) ==
    [k \in DOMAIN cs |-> IF cs[k].id = id THEN Merge(cs[k], updates) ELSE cs[k]]

\* a variant of SplitInside that also accepts the cursor on the start of the clip
SplitInsideOrAtStart(c, t) ==
    t >= c.startOffset /\ t < c.startOffset + (c.trimEnd - c.trimStart)

\* a variant of SplitInside that also accepts the cursor on either edge of the clip
SplitInsideOrOnEdge(c, t) ==
    t >= c.startOffset /\ t <= c.startOffset + (c.trimEnd - c.trimStart)

\* the guard of handleSplit: the cursor lies strictly inside the clip
SplitInside(c, t) ==
    t > c.startOffset /\ t < c.startOffset + (c.trimEnd - c.trimStart)

\* a variant of handleSplit whose second half keeps the original's trimStart
handleSplitSecondKeepsTrimStart(cs, sel, t, fresh) ==
    LET i == FindIndex(cs, sel) IN
    IF i = 0 THEN [clips |-> cs, selectedClipId |-> sel]
    ELSE LET selectedClip == cs[i]
             splitPointSource == selectedClip.trimStart + (t - selectedClip.startOffset)
             firstHalf == [selectedClip EXCEPT !.trimEnd = splitPointSource]
             secondHalf == [selectedClip EXCEPT !.id = fresh, !.startOffset = t]
         IN IF t > selectedClip.startOffset /\ t < clipEnd(selectedClip)
            THEN [clips |-> Append(MapReplace(cs, selectedClip.id, firstHalf), secondHalf),
                  selectedClipId |-> secondHalf.id]
            ELSE [clips |-> cs, selectedClipId |-> sel]

\* handleSplit: the store and the selection it leaves; fresh is the new uuid
handleSplit(cs, sel, t, fresh) ==
    LET i == FindIndex(cs, sel) IN
    IF i = 0 THEN [clips |-> cs, selectedClipId |-> sel]
    ELSE LET selectedClip == cs[i]
             splitPointRelative == t - selectedClip.startOffset
             splitPointSource == selectedClip.trimStart + splitPointRelative
             firstHalf == [selectedClip EXCEPT !.trimEnd = splitPointSource]
             secondHalf == [selectedClip EXCEPT !.id = fresh,
                                                !.startOffset = t,
                                                !.trimStart = splitPointSource,
                                                !.trackIndex = selectedClip.trackIndex]
         IN IF SplitInside(selectedClip, t)
            THEN [clips |-> Append(MapReplace(cs, selectedClip.id, firstHalf), secondHalf),
                  selectedClipId |-> secondHalf.id]
            ELSE [clips |-> cs, selectedClipId |-> sel]

\* a variant of handleSeparateAudio that copies the audio clip from the muted video
\* clip and leaves it on the original's track
handleSeparateAudioCopiesMuted(cs, sel, fresh) ==
    LET i == FindIndex(cs, sel) IN
    IF i = 0 THEN cs
    ELSE LET selectedClip == cs[i]
             updatedVideo == [selectedClip EXCEPT !.isMuted = TRUE]
             audioClip == [updatedVideo EXCEPT !.id = fresh,
                                              !.type = "audio",
                                              !.name = <<"Audio from">> \o selectedClip.name]
         IN IF selectedClip.type # "video" THEN cs
            ELSE Append(MapReplace(cs, selectedClip.id, updatedVideo), audioClip)

\* handleSeparateAudio: the store it leaves; fresh is the new uuid
handleSeparateAudio(cs, sel, fresh) ==
    LET i == FindIndex(cs, sel) IN
    IF i = 0 THEN cs
    ELSE LET selectedClip == cs[i]
             updatedVideo == [selectedClip EXCEPT !.isMuted = TRUE]
             audioClip == [selectedClip EXCEPT !.id = fresh,
                                               !.type = "audio",
                                               !.name = <<"Audio from">> \o selectedClip.name,
                                               !.trackIndex = 0,
                                               !.isMuted = FALSE]
         IN IF selectedClip.type # "video" THEN cs
            ELSE Append(MapReplace(cs, selectedClip.id, updatedVideo), audioClip)

\* a variant of adjustTrim without the guard: each bound is clamped and written
adjustTrimUnguarded(cs, sel, startDelta, endDelta) ==
    LET i == FindIndex(cs, sel) IN
    IF i = 0 THEN cs
    ELSE LET selectedClip == cs[i]
             newTrimStart == Max(0, selectedClip.trimStart + startDelta)
             newTrimEnd == Min(selectedClip.duration, selectedClip.trimEnd + endDelta)
         IN [k \in DOMAIN cs |->
                IF cs[k].id = selectedClip.id
                THEN [cs[k] EXCEPT !.trimStart = newTrimStart, !.trimEnd = newTrimEnd]
                ELSE cs[k]]

\* a variant of adjustTrim that cuts the source itself: duration follows trimEnd
adjustTrimCutsSource(cs, sel, startDelta, endDelta) ==
    LET i == FindIndex(cs, sel) IN
    IF i = 0 THEN cs
    ELSE LET selectedClip == cs[i]
             newTrimStart == Max(0, selectedClip.trimStart + startDelta)
             newTrimEnd == Min(selectedClip.duration, selectedClip.trimEnd + endDelta)
         IN IF newTrimStart < newTrimEnd
            THEN [k \in DOMAIN cs |->
                    IF cs[k].id = selectedClip.id
                    THEN [cs[k] EXCEPT !.trimStart = newTrimStart,
                                       !.trimEnd = newTrimEnd,
                                       !.duration = newTrimEnd]
                    ELSE cs[k]]
            ELSE cs

\* adjustTrim: the store it leaves
adjustTrim(cs, sel, startDelta, endDelta) ==
    LET i == FindIndex(cs, sel) IN
    IF i = 0 THEN cs
    ELSE LET selectedClip == cs[i]
             newTrimStart == Max(0, selectedClip.trimStart + startDelta)
             newTrimEnd == Min(selectedClip.duration, selectedClip.trimEnd + endDelta)
         IN IF newTrimStart < newTrimEnd
            THEN [k \in DOMAIN cs |->
                    IF cs[k].id = selectedClip.id
                    THEN [cs[k] EXCEPT !.trimStart = newTrimStart, !.trimEnd = newTrimEnd]
                    ELSE cs[k]]
            ELSE cs

-----------------------------------------------------------------------------
(* Player: the composition resolver *)

\* a variant of isActiveAt whose interval is closed at its end
isActiveAtClosedEnd(c, t) ==
    t >= c.startOffset /\ t <= c.startOffset + (c.trimEnd - c.trimStart)

\* the filter predicate of activeVideoClips and activeAudioClips
isActiveAt(c, t) ==
    t >= c.startOffset /\ t < c.startOffset + (c.trimEnd - c.trimStart)

RECURSIVE FilterActive(_, _, _)
FilterActive(cs, type, t) ==
    IF cs = <<>> THEN <<>>
    ELSE IF Head(cs).type = type /\ isActiveAt(Head(cs), t)
         THEN <<Head(cs)>> \o FilterActive(Tail(cs), type, t)
         ELSE FilterActive(Tail(cs), type, t)

activeVideoClips(cs, t) == FilterActive(cs, "video", t)
activeAudioClips(cs, t) == FilterActive(cs, "audio", t)

\* a variant of compareTracks that sorts by ascending trackIndex
compareTracksAscending(a, b) == a.trackIndex - b.trackIndex

\* the comparator (a, b) => b.trackIndex - a.trackIndex: negative when a sorts first
compareTracks(a, b) == b.trackIndex - a.trackIndex

\* Array.prototype.sort with that comparator: a stable insertion sort
RECURSIVE InsertByTrack(_, _)
InsertByTrack(sorted, c) ==
    IF sorted = <<>> THEN <<c>>
    ELSE IF compareTracks(Head(sorted), c) <= 0
         THEN <<Head(sorted)>> \o InsertByTrack(Tail(sorted), c)
         ELSE <<c>> \o sorted

RECURSIVE SortByTrack(_)
SortByTrack(cs) ==
    IF cs = <<>> THEN <<>>
    ELSE InsertByTrack(SortByTrack(SubSeq(cs, 1, Len(cs) - 1)), cs[Len(cs)])

\* topVideoClip: element [0] of the sorted array; <<>> stands for undefined
topVideoClip(cs, t) ==
    LET sorted == SortByTrack(activeVideoClips(cs, t))
    IN IF sorted = <<>> THEN <<>> ELSE <<sorted[1]>>

\* a variant of targetSourceTime that takes the cursor for the offset inside the clip
targetSourceTimeFromCursor(c, t) == c.trimStart + t

\* targetSourceTime of the video and the audio sync effects
targetSourceTime(c, t) ==
    LET offsetInClip == t - c.startOffset
    IN c.trimStart + offsetInClip

\* a variant of videoMuted that mutes the element only for a clip of volume 0
videoMutedWhenSilent(c) == c.volume = 0

\* the video sync effect: vid.muted = topVideoClip.isMuted
videoMuted(c) == c.isMuted

\* the audio pool: an element is made by new Audio() and its muted attribute is
\* never assigned, so it keeps the default
audioMuted(c) == FALSE

\* the audio sync effect: aud.volume = clip.volume
audioVolume(c) == c.volume

\* the video element's volume is never assigned and keeps the default
videoVolume(c) == 1

\* a variant of audioPoolEffect without the cleanup loop
audioPoolEffectNoCleanup(refs, cs, t) ==
    LET active == activeAudioClips(cs, t)
        created == {active[k].id : k \in DOMAIN active} \ refs
    IN [released |-> {}, kept |-> refs, created |-> created,
        pool |-> refs \cup created]

\* the audio pool effect on the keys refs of audioRefs.current: the cleanup loop
\* deletes the keys outside requiredIds, then the creation loop adds an element for
\* every active audio clip that has none
audioPoolEffect(refs, cs, t) ==
    LET active == activeAudioClips(cs, t)
        requiredIds == {active[k].id : k \in DOMAIN active}
        kept == {id \in refs : id \in requiredIds}
        created == {active[k].id : k \in {j \in DOMAIN active : active[j].id \notin kept}}
    IN [released |-> refs \ kept, kept |-> kept, created |-> created,
        pool |-> kept \cup created]

\* 0.3 s, the drift the sync effects tolerate
SyncTolerance == (3 * UnitsPerSecond) \div 10

\* a variant of syncElement that seeks on a drift of 0.3 s or more
syncElementSeeksAtTolerance(el, c, t) ==
    LET target == targetSourceTime(c, t) IN
    IF el.src # c.fileUrl
    THEN [src |-> c.fileUrl, currentTime |-> target, loaded |-> TRUE, seeked |-> TRUE]
    ELSE IF el.currentTime - target >= SyncTolerance
            \/ target - el.currentTime >= SyncTolerance
         THEN [el EXCEPT !.currentTime = target, !.loaded = FALSE, !.seeked = TRUE]
         ELSE [el EXCEPT !.loaded = FALSE, !.seeked = FALSE]

\* one run of a sync effect on the media element el (its data-src and its
\* currentTime) for the clip c it renders at cursor t; loaded and seeked record
\* whether the run called load() and whether it assigned currentTime
syncElement(el, c, t) ==
    LET target == targetSourceTime(c, t) IN
    IF el.src # c.fileUrl
    THEN [src |-> c.fileUrl, currentTime |-> target, loaded |-> TRUE, seeked |-> TRUE]
    ELSE IF el.currentTime - target > SyncTolerance
            \/ target - el.currentTime > SyncTolerance
         THEN [el EXCEPT !.currentTime = target, !.loaded = FALSE, !.seeked = TRUE]
         ELSE [el EXCEPT !.loaded = FALSE, !.seeked = FALSE]

\* the main clock effect: while playing, an interval whose callback keeps the
\* currentTime of the render the effect ran for
mainClock(playing, t) ==
    IF playing THEN [set |-> TRUE, currentTime |-> t]
               ELSE [set |-> FALSE, currentTime |-> 0]

-----------------------------------------------------------------------------
(* Timeline: drag sessions *)

\* dragState = null
NoDrag ==
    [clipId |-> NULL, startX |-> 0, startY |-> 0, mode |-> "none",
     initialStartOffset |-> 0, initialTrimStart |-> 0, initialTrimEnd |-> 0,
     initialTrackIndex |-> 0, currentStartOffset |-> 0, currentTrimStart |-> 0,
     currentTrimEnd |-> 0, currentTrackIndex |-> 0]

\* the DragState literal of startMove, startResizeLeft and startResizeRight
startDrag(mode, clip, clientX, clientY) ==
    [clipId |-> clip.id, startX |-> clientX, startY |-> clientY, mode |-> mode,
     initialStartOffset |-> clip.startOffset, initialTrimStart |-> clip.trimStart,
     initialTrimEnd |-> clip.trimEnd, initialTrackIndex |-> clip.trackIndex,
     currentStartOffset |-> clip.startOffset, currentTrimStart |-> clip.trimStart,
     currentTrimEnd |-> clip.trimEnd, currentTrackIndex |-> clip.trackIndex]

\* deltaPixelsX / PIXELS_PER_SECOND, in time units
deltaSeconds(deltaPixelsX) == (deltaPixelsX * UnitsPerSecond) \div PIXELS_PER_SECOND

\* a variant of moveUpdate that does not clamp the track
moveUpdateUnclampedTrack(prev, dSeconds, tracksJump) ==
    [prev EXCEPT !.currentStartOffset = Max(0, prev.initialStartOffset + dSeconds),
                 !.currentTrackIndex = prev.initialTrackIndex + tracksJump]

\* a variant of moveUpdate that accumulates from the previous live values
moveUpdateAccumulating(prev, dSeconds, tracksJump) ==
    [prev EXCEPT !.currentStartOffset = Max(0, prev.currentStartOffset + dSeconds),
                 !.currentTrackIndex =
                     Max(0, Min(prev.currentTrackIndex + tracksJump, 2))]

\* the branch of handleMouseMove for mode 'move'
moveUpdate(prev, dSeconds, tracksJump) ==
    LET newOffset == Max(0, prev.initialStartOffset + dSeconds)
        newTrackIndex == Max(0, Min(prev.initialTrackIndex + tracksJump, 2))
    IN [prev EXCEPT !.currentStartOffset = newOffset,
                    !.currentTrackIndex = newTrackIndex]

\* a variant of resizeLeftUpdate that shifts the clip by the pointer delta, not by
\* the delta applied to trimStart
resizeLeftUpdateRawDelta(prev, dSeconds) ==
    LET newTrimStart == Max(0, Min(prev.initialTrimStart + dSeconds,
                                   prev.initialTrimEnd - minDuration))
    IN [prev EXCEPT !.currentTrimStart = newTrimStart,
                    !.currentStartOffset = prev.initialStartOffset + dSeconds]

\* a variant of resizeLeftUpdate that clamps to trimEnd instead of trimEnd - minDuration
resizeLeftUpdateNoFloor(prev, dSeconds) ==
    LET newTrimStart == Max(0, Min(prev.initialTrimStart + dSeconds, prev.initialTrimEnd))
        actualDelta == newTrimStart - prev.initialTrimStart
    IN [prev EXCEPT !.currentTrimStart = newTrimStart,
                    !.currentStartOffset = prev.initialStartOffset + actualDelta]

\* the branch of handleMouseMove for mode 'resize-left'
resizeLeftUpdate(prev, dSeconds) ==
    LET newTrimStart == Max(0, Min(prev.initialTrimStart + dSeconds,
                                   prev.initialTrimEnd - minDuration))
        actualDelta == newTrimStart - prev.initialTrimStart
    IN [prev EXCEPT !.currentTrimStart = newTrimStart,
                    !.currentStartOffset = prev.initialStartOffset + actualDelta]

\* the branch of handleMouseMove for mode 'resize-right'
resizeRightUpdate(prev, dSeconds, activeClip) ==
    LET newTrimEnd == Max(prev.initialTrimStart + minDuration,
                          Min(prev.initialTrimEnd + dSeconds, activeClip.duration))
    IN [prev EXCEPT !.currentTrimEnd = newTrimEnd]

\* handleMouseMove: the dragState it sets
handleMouseMove(prev, activeClip, clientX, clientY) ==
    LET deltaPixelsX == clientX - prev.startX
        dSeconds == deltaSeconds(deltaPixelsX)
        deltaPixelsY == clientY - prev.startY
        tracksJump == MathRound(deltaPixelsY, TRACK_HEIGHT + TRACK_GAP)
    IN IF prev.mode = "move" THEN moveUpdate(prev, dSeconds, tracksJump)
       ELSE IF prev.mode = "resize-left" THEN resizeLeftUpdate(prev, dSeconds)
       ELSE IF prev.mode = "resize-right" THEN resizeRightUpdate(prev, dSeconds, activeClip)
       ELSE prev

\* a variant of commitUpdates that writes the whole live snapshot, whatever the mode
commitUpdatesWholeSnapshot(ds) ==
    [startOffset |-> ds.currentStartOffset, trackIndex |-> ds.currentTrackIndex,
     trimStart |-> ds.currentTrimStart, trimEnd |-> ds.currentTrimEnd]

\* handleMouseUp: the Partial<Clip> it commits
commitUpdates(ds) ==
    IF ds.mode = "move"
    THEN [startOffset |-> ds.currentStartOffset, trackIndex |-> ds.currentTrackIndex]
    ELSE IF ds.mode = "resize-left"
    THEN [trimStart |-> ds.currentTrimStart, startOffset |-> ds.currentStartOffset]
    ELSE [trimEnd |-> ds.currentTrimEnd]

\* the drag effect has registered its listeners: a session whose clip is in the store
ListenersAttached == dragState.mode # "none" /\ HasClip(clips, dragState.clipId)

-----------------------------------------------------------------------------
(* Asynchronous work in flight *)

\* no file is loading
NoImport == [active |-> FALSE, url |-> 0, type |-> "video", duration |-> 0,
             currentTime |-> 0]

\* no generation call is running and none of its callbacks is outstanding
NoGen == [phase |-> "idle", mode |-> "video", currentTime |-> 0, url |-> 0,
          metaPending |-> FALSE, timerPending |-> FALSE, readyState |-> 0]

\* one more event is handled: a handler or a callback runs to completion
Handled == events < MaxEvents /\ events' = events + 1

\* the Player has rendered the new App state and its effects have run: the pool
\* is reconciled and the clock's interval is the one of this render
EffectsFlushed ==
    /\ audioRefs' = audioPoolEffect(audioRefs, clips', currentTime').pool
    /\ interval' = mainClock(isPlaying', currentTime')

\* the state was set outside a discrete input event (a timer or media callback, a
\* mousemove listener), so the effects of the new render run later: until they do,
\* the interval alive is the one of the render before.  The pool is read by the
\* effects of its own flush only, so it is shown reconciled.
EffectsDeferred ==
    /\ audioRefs' = audioPoolEffect(audioRefs, clips', currentTime').pool
    /\ interval' = mainClock(isPlaying, currentTime)

Init ==
    /\ clips = <<>>
    /\ currentTime = 0
    /\ isPlaying = FALSE
    /\ selectedClipId = NULL
    /\ isGenerating = FALSE
    /\ aiMode = "video"
    /\ dragState = NoDrag
    /\ isScrubbing = FALSE
    /\ pendingImport = NoImport
    /\ gen = NoGen
    /\ nextId = 1
    /\ nextUrl = 1
    /\ audioRefs = {}
    /\ interval = mainClock(FALSE, 0)
    /\ events = 0

-----------------------------------------------------------------------------
(* App actions *)

\* handleFileUpload up to the assignment of onloadedmetadata: the closure keeps
\* the currentTime of the render that created it
FileUpload(type, duration) ==
    /\ Handled
    /\ ~pendingImport.active
    /\ pendingImport' = [active |-> TRUE, url |-> nextUrl, type |-> type,
                         duration |-> duration, currentTime |-> currentTime]
    /\ nextUrl' = nextUrl + 1
    /\ UNCHANGED <<clips, currentTime, isPlaying, selectedClipId, isGenerating,
                   aiMode, dragState, isScrubbing, gen, nextId>>
    /\ EffectsFlushed

\* a variant of FileLoaded that sets the store to the new clip alone
FileLoadedReplacesStore ==
    /\ Handled
    /\ pendingImport.active
    /\ clips' = <<NewClip(nextId, pendingImport.url, pendingImport.type,
                          <<"file">>, pendingImport.duration,
                          pendingImport.currentTime)>>
    /\ currentTime' = pendingImport.currentTime + pendingImport.duration
    /\ nextId' = nextId + 1
    /\ pendingImport' = NoImport
    /\ UNCHANGED <<isPlaying, selectedClipId, isGenerating, aiMode, dragState,
                   isScrubbing, gen, nextUrl>>
    /\ EffectsDeferred

\* videoElement.onloadedmetadata of handleFileUpload
FileLoaded ==
    /\ Handled
    /\ pendingImport.active
    /\ clips' = Append(clips, NewClip(nextId, pendingImport.url, pendingImport.type,
                                      <<"file">>, pendingImport.duration,
                                      pendingImport.currentTime))
    /\ currentTime' = pendingImport.currentTime + pendingImport.duration
    /\ nextId' = nextId + 1
    /\ pendingImport' = NoImport
    /\ UNCHANGED <<isPlaying, selectedClipId, isGenerating, aiMode, dragState,
                   isScrubbing, gen, nextUrl>>
    /\ EffectsDeferred

togglePlay ==
    /\ Handled
    /\ isPlaying' = ~isPlaying
    /\ UNCHANGED <<clips, currentTime, selectedClipId, isGenerating, aiMode,
                   dragState, isScrubbing, pendingImport, gen, nextId, nextUrl>>
    /\ EffectsFlushed

\* Player main clock: the interval callback onTimeUpdate(currentTime + 0.1) of the
\* interval the effect set for the current render
ClockTick ==
    /\ Handled
    /\ isPlaying
    /\ currentTime' = currentTime + ClockQuantum
    /\ UNCHANGED <<clips, isPlaying, selectedClipId, isGenerating, aiMode,
                   dragState, isScrubbing, pendingImport, gen, nextId, nextUrl>>
    /\ EffectsDeferred

\* Player main clock: the callback of the interval of the render before fires
\* ahead of the effect that clears it, with the currentTime it closed over
StaleClockTick ==
    /\ Handled
    /\ interval.set
    /\ interval # mainClock(isPlaying, currentTime)
    /\ currentTime' = interval.currentTime + ClockQuantum
    /\ UNCHANGED <<clips, isPlaying, selectedClipId, isGenerating, aiMode,
                   dragState, isScrubbing, pendingImport, gen, nextId, nextUrl>>
    /\ EffectsDeferred

\* the seek-to-start button
SeekToStart ==
    /\ Handled
    /\ currentTime' = 0
    /\ UNCHANGED <<clips, isPlaying, selectedClipId, isGenerating, aiMode,
                   dragState, isScrubbing, pendingImport, gen, nextId, nextUrl>>
    /\ EffectsFlushed

\* the seek-to-end button
SeekToEnd ==
    /\ Handled
    /\ currentTime' = totalDuration(clips)
    /\ UNCHANGED <<clips, isPlaying, selectedClipId, isGenerating, aiMode,
                   dragState, isScrubbing, pendingImport, gen, nextId, nextUrl>>
    /\ EffectsFlushed

DeleteClip ==
    LET r == handleDeleteClip(clips, selectedClipId) IN
    /\ Handled
    /\ clips' = r.clips
    /\ selectedClipId' = r.selectedClipId
    /\ UNCHANGED <<currentTime, isPlaying, isGenerating, aiMode, dragState,
                   isScrubbing, pendingImport, gen, nextId, nextUrl>>
    /\ EffectsFlushed

Split ==
    LET r == handleSplit(clips, selectedClipId, currentTime, nextId) IN
    /\ Handled
    /\ clips' = r.clips
    /\ selectedClipId' = r.selectedClipId
    /\ nextId' = IF r.clips # clips THEN nextId + 1 ELSE nextId
    /\ UNCHANGED <<currentTime, isPlaying, isGenerating, aiMode, dragState,
                   isScrubbing, pendingImport, gen, nextUrl>>
    /\ EffectsFlushed

SeparateAudio ==
    LET cs == handleSeparateAudio(clips, selectedClipId, nextId) IN
    /\ Handled
    /\ clips' = cs
    /\ nextId' = IF cs # clips THEN nextId + 1 ELSE nextId
    /\ UNCHANGED <<currentTime, isPlaying, selectedClipId, isGenerating, aiMode,
                   dragState, isScrubbing, pendingImport, gen, nextUrl>>
    /\ EffectsFlushed

\* the two trim buttons: adjustTrim(1, 0) and adjustTrim(0, -1)
TrimButton(startDelta, endDelta) ==
    /\ Handled
    /\ clips' = adjustTrim(clips, selectedClipId, startDelta, endDelta)
    /\ UNCHANGED <<currentTime, isPlaying, selectedClipId, isGenerating, aiMode,
                   dragState, isScrubbing, pendingImport, gen, nextId, nextUrl>>
    /\ EffectsFlushed

-----------------------------------------------------------------------------
(* Generation *)

\* the mode buttons of the modal
SetAiMode(m) ==
    /\ Handled
    /\ aiMode # m
    /\ aiMode' = m
    /\ UNCHANGED <<clips, currentTime, isPlaying, selectedClipId, isGenerating,
                   dragState, isScrubbing, pendingImport, gen, nextId, nextUrl>>
    /\ EffectsFlushed

\* handleAIGenerate up to its first await; the button is disabled while isGenerating
AIGenerate ==
    /\ Handled
    /\ ~isGenerating
    /\ gen.phase = "idle"
    /\ isGenerating' = TRUE
    /\ gen' = [NoGen EXCEPT !.phase = "awaiting", !.mode = aiMode,
                            !.currentTime = currentTime]
    /\ UNCHANGED <<clips, currentTime, isPlaying, selectedClipId, aiMode,
                   dragState, isScrubbing, pendingImport, nextId, nextUrl>>
    /\ EffectsFlushed

\* a variant of GenerateFails whose catch block does not reset isGenerating
GenerateFailsKeepsFlag ==
    /\ Handled
    /\ gen.phase = "awaiting"
    /\ gen' = NoGen
    /\ UNCHANGED <<clips, currentTime, isPlaying, selectedClipId, isGenerating, aiMode,
                   dragState, isScrubbing, pendingImport, nextId, nextUrl>>
    /\ EffectsFlushed

\* ensureApiKey, generateVideoClip or generateVoiceover throws: the catch block
GenerateFails ==
    /\ Handled
    /\ gen.phase = "awaiting"
    /\ isGenerating' = FALSE
    /\ gen' = NoGen
    /\ UNCHANGED <<clips, currentTime, isPlaying, selectedClipId, aiMode,
                   dragState, isScrubbing, pendingImport, nextId, nextUrl>>
    /\ EffectsFlushed

\* the awaited url arrives: tempEl is created, and for audio the timer is set
GenerateResolves ==
    /\ Handled
    /\ gen.phase = "awaiting"
    /\ gen' = [gen EXCEPT !.phase = "loading", !.url = nextUrl,
                          !.metaPending = TRUE,
                          !.timerPending = (gen.mode = "audio"),
                          !.readyState = 0]
    /\ nextUrl' = nextUrl + 1
    /\ UNCHANGED <<clips, currentTime, isPlaying, selectedClipId, isGenerating,
                   aiMode, dragState, isScrubbing, pendingImport, nextId>>
    /\ EffectsFlushed

\* the name literal of the generated clip
GenName(mode) == IF mode = "video" THEN <<"AI Generated Video">>
                                   ELSE <<"AI Generated Audio">>

\* a callback of the call has run: the call is over when none is outstanding
Settle(g) == IF ~g.metaPending /\ ~g.timerPending THEN NoGen ELSE g

\* a variant of TempElLoadedMetadata that does not reset isGenerating
TempElLoadedMetadataKeepsFlag(reported) ==
    /\ Handled
    /\ gen.phase = "loading"
    /\ gen.metaPending
    /\ LET duration == IF reported # 0 THEN reported ELSE DefaultGenDuration
       IN clips' = Append(clips, NewClip(nextId, gen.url, gen.mode, GenName(gen.mode),
                                         duration, gen.currentTime))
    /\ nextId' = nextId + 1
    /\ gen' = Settle([gen EXCEPT !.metaPending = FALSE, !.readyState = 1])
    /\ UNCHANGED <<currentTime, isPlaying, selectedClipId, isGenerating, aiMode,
                   dragState, isScrubbing, pendingImport, nextUrl>>
    /\ EffectsFlushed

\* tempEl.onloadedmetadata; reported is tempEl.duration
TempElLoadedMetadata(reported) ==
    /\ Handled
    /\ gen.phase = "loading"
    /\ gen.metaPending
    /\ LET duration == IF reported # 0 THEN reported ELSE DefaultGenDuration
       IN clips' = Append(clips, NewClip(nextId, gen.url, gen.mode, GenName(gen.mode),
                                         duration, gen.currentTime))
    /\ nextId' = nextId + 1
    /\ isGenerating' = FALSE
    /\ gen' = Settle([gen EXCEPT !.metaPending = FALSE, !.readyState = 1])
    /\ UNCHANGED <<currentTime, isPlaying, selectedClipId, aiMode, dragState,
                   isScrubbing, pendingImport, nextUrl>>
    /\ EffectsFlushed

\* the setTimeout callback of the audio branch
FallbackTimer ==
    /\ Handled
    /\ gen.phase = "loading"
    /\ gen.timerPending
    /\ IF gen.readyState = 0
       THEN /\ clips' = Append(clips, NewClip(nextId, gen.url, gen.mode,
                                              GenName(gen.mode), FallbackGenDuration,
                                              gen.currentTime))
            /\ nextId' = nextId + 1
            /\ isGenerating' = FALSE
       ELSE UNCHANGED <<clips, nextId, isGenerating>>
    /\ gen' = Settle([gen EXCEPT !.timerPending = FALSE])
    /\ UNCHANGED <<currentTime, isPlaying, selectedClipId, aiMode, dragState,
                   isScrubbing, pendingImport, nextUrl>>
    /\ EffectsFlushed

-----------------------------------------------------------------------------
(* Timeline actions *)

\* a variant of scrubTime without the floor at 0
scrubTimeUnclamped(x) == deltaSeconds(x)

\* updateScrubPosition: the time it seeks to, x = clientX - rect.left + scrollLeft
scrubTime(x) == Max(0, deltaSeconds(x))

\* handleScrubStart: a mouse-down on the ruler, the playhead or the track backdrop
ScrubStart(x) ==
    /\ Handled
    /\ ~isScrubbing
    /\ ~ListenersAttached
    /\ isScrubbing' = TRUE
    /\ currentTime' = scrubTime(x)
    /\ UNCHANGED <<clips, isPlaying, selectedClipId, isGenerating, aiMode,
                   dragState, pendingImport, gen, nextId, nextUrl>>
    /\ EffectsFlushed

\* handleScrubMove
ScrubMove(x) ==
    /\ Handled
    /\ isScrubbing
    /\ currentTime' = scrubTime(x)
    /\ UNCHANGED <<clips, isPlaying, selectedClipId, isGenerating, aiMode,
                   dragState, isScrubbing, pendingImport, gen, nextId, nextUrl>>
    /\ EffectsDeferred

\* handleScrubUp
ScrubUp ==
    /\ Handled
    /\ isScrubbing
    /\ isScrubbing' = FALSE
    /\ UNCHANGED <<clips, currentTime, isPlaying, selectedClipId, isGenerating,
                   aiMode, dragState, pendingImport, gen, nextId, nextUrl>>
    /\ EffectsFlushed

\* startMove, startResizeLeft, startResizeRight: a mouse-down on clip i or a handle
\* of it; the pointer is free (no scrub, no session whose listeners wait for mouse-up)
StartDrag(mode, i, x, y) ==
    /\ Handled
    /\ ~isScrubbing
    /\ ~ListenersAttached
    /\ selectedClipId' = clips[i].id
    /\ dragState' = startDrag(mode, clips[i], x, y)
    /\ UNCHANGED <<clips, currentTime, isPlaying, isGenerating, aiMode,
                   isScrubbing, pendingImport, gen, nextId, nextUrl>>
    /\ EffectsFlushed

\* a variant of MouseMove that also writes the live values through to the store
MouseMoveWritesThrough(x, y) ==
    LET live == handleMouseMove(dragState,
                                clips[FindIndex(clips, dragState.clipId)], x, y)
    IN /\ Handled
       /\ ListenersAttached
       /\ dragState' = live
       /\ clips' = handleUpdateClip(clips, dragState.clipId, commitUpdates(live))
       /\ UNCHANGED <<currentTime, isPlaying, selectedClipId, isGenerating,
                      aiMode, isScrubbing, pendingImport, gen, nextId, nextUrl>>
       /\ EffectsFlushed

\* the window mousemove listener of the drag effect
MouseMove(x, y) ==
    /\ Handled
    /\ ListenersAttached
    /\ dragState' = handleMouseMove(dragState,
                                    clips[FindIndex(clips, dragState.clipId)], x, y)
    /\ UNCHANGED <<clips, currentTime, isPlaying, selectedClipId, isGenerating,
                   aiMode, isScrubbing, pendingImport, gen, nextId, nextUrl>>
    /\ EffectsFlushed

\* the window mouseup listener of the drag effect: handleMouseUp
MouseUp ==
    /\ Handled
    /\ ListenersAttached
    /\ clips' = handleUpdateClip(clips, dragState.clipId, commitUpdates(dragState))
    /\ dragState' = NoDrag
    /\ UNCHANGED <<currentTime, isPlaying, selectedClipId, isGenerating, aiMode,
                   isScrubbing, pendingImport, gen, nextId, nextUrl>>
    /\ EffectsFlushed

\* the pointer is released while a session exists whose clip is no longer in the
\* store: the drag effect returned before addEventListener, so nothing hears it
MouseUpNoListener ==
    /\ Handled
    /\ dragState.mode # "none"
    /\ ~ListenersAttached
    /\ UNCHANGED <<clips, currentTime, isPlaying, selectedClipId, isGenerating,
                   aiMode, dragState, isScrubbing, pendingImport, gen, nextId,
                   nextUrl>>
    /\ EffectsFlushed

-----------------------------------------------------------------------------

DragModes == {"move", "resize-left", "resize-right"}

Next ==
    \/ \E type \in FileTypes, d \in FileDurations : FileUpload(type, d)
    \/ FileLoaded
    \/ togglePlay
    \/ ClockTick
    \/ StaleClockTick
    \/ SeekToStart
    \/ SeekToEnd
    \/ DeleteClip
    \/ Split
    \/ SeparateAudio
    \/ TrimButton(TrimStep, 0)
    \/ TrimButton(0, -TrimStep)
    \/ \E m \in FileTypes : SetAiMode(m)
    \/ AIGenerate
    \/ GenerateFails
    \/ GenerateResolves
    \/ \E d \in GenDurations : TempElLoadedMetadata(d)
    \/ FallbackTimer
    \/ \E x \in ScrubXs : ScrubStart(x)
    \/ \E x \in ScrubXs : ScrubMove(x)
    \/ ScrubUp
    \/ \E mode \in DragModes, i \in DOMAIN clips, x \in DownXs, y \in DownYs :
          StartDrag(mode, i, x, y)
    \/ \E x \in MoveXs, y \in MoveYs : MouseMove(x, y)
    \/ MouseUp
    \/ MouseUpNoListener

Spec == Init /\ [][Next]_vars

\* the generation service answers every call, and the callbacks set on the loaded
\* element and the fallback timer run
FairSpec ==
    /\ Init /\ [][Next]_vars
    /\ WF_vars(GenerateResolves \/ GenerateFails)
    /\ WF_vars(\E d \in GenDurations : TempElLoadedMetadata(d))
    /\ WF_vars(FallbackTimer)

-----------------------------------------------------------------------------
(* Claims *)

\* the instants the resolver is examined at: the cursor, and one unit before, at and
\* after every edge of every clip (between two edges the active sets do not change)
Instants ==
    {currentTime} \cup
    UNION {{clips[i].startOffset + d, clipEnd(clips[i]) + d} :
              i \in DOMAIN clips, d \in {-1, 0, 1}}

\* the ids of the clips of a list
IdsOf(cs) == {cs[k].id : k \in DOMAIN cs}

\* t lies in the half-open active interval of c, as the specification words it
InActiveInterval(c, t) ==
    c.startOffset <= t /\ t < c.startOffset + (c.trimEnd - c.trimStart)

\* the index of the selected clip, as a set: empty when nothing in the store is selected
SelectedIndex == {i \in DOMAIN clips : clips[i].id = selectedClipId}

\* C1: in every reachable state every clip of the store has trimStart < trimEnd.
C1_TrimStartBeforeTrimEnd ==
    \A i \in DOMAIN clips : clips[i].trimStart < clips[i].trimEnd

\* C2: in every reachable state every clip of the store has 0 <= trimStart and
\* trimEnd <= sourceDuration.
C2_TrimWithinSource ==
    \A i \in DOMAIN clips :
        0 <= clips[i].trimStart /\ clips[i].trimEnd <= clips[i].duration

\* a pointer-move of the running drag session
AnyMouseMove == \E x \in MoveXs, y \in MoveYs : MouseMove(x, y)

\* the clip of the store the running session is about
DraggedClip(cs) == cs[FindIndex(cs, dragState.clipId)]

\* C3 as stated: every pointer-move of a resize-left session leaves a live trimStart
\* strictly below trimEnd - 0.5 s, every pointer-move of a resize-right session a live
\* trimEnd strictly above trimStart + 0.5 s, and so does every commit in the store.
C3_ResizeStrictlyInsideFloor ==
    [][ /\ AnyMouseMove =>
            /\ dragState'.mode = "resize-left" =>
                  ~(dragState'.currentTrimStart >= dragState'.currentTrimEnd - minDuration)
            /\ dragState'.mode = "resize-right" =>
                  ~(dragState'.currentTrimEnd <= dragState'.currentTrimStart + minDuration)
        /\ MouseUp =>
            /\ dragState.mode = "resize-left" =>
                  ~(DraggedClip(clips').trimStart >= DraggedClip(clips').trimEnd - minDuration)
            /\ dragState.mode = "resize-right" =>
                  ~(DraggedClip(clips').trimEnd <= DraggedClip(clips').trimStart + minDuration)
      ]_vars

\* C3 amended: every pointer-move of a resize-left session leaves a live trimStart of
\* at most max(0, trimEnd - 0.5 s) and every pointer-move of a resize-right session a
\* live trimEnd of at least trimStart + 0.5 s, trimEnd and trimStart being the
\* session's own (the drag-start values, which the mode leaves untouched); the commit
\* writes that live value to the store.
C3_ResizeKeepsFloor ==
    [][ /\ AnyMouseMove =>
            /\ dragState'.mode = "resize-left" =>
                  /\ dragState'.currentTrimEnd = dragState.initialTrimEnd
                  /\ dragState'.currentTrimStart <=
                        Max(0, dragState'.currentTrimEnd - minDuration)
            /\ dragState'.mode = "resize-right" =>
                  /\ dragState'.currentTrimStart = dragState.initialTrimStart
                  /\ dragState'.currentTrimEnd >=
                        dragState'.currentTrimStart + minDuration
        /\ MouseUp =>
            /\ dragState.mode = "resize-left" =>
                  DraggedClip(clips').trimStart = dragState.currentTrimStart
            /\ dragState.mode = "resize-right" =>
                  DraggedClip(clips').trimEnd = dragState.currentTrimEnd
      ]_vars

\* C3 witness: a resize-left session whose pointer went past the floor (the live
\* trimStart sits on trimEnd - 0.5 s, short of where the pointer is)
C3_Witness ==
    /\ dragState.mode = "resize-left"
    /\ dragState.currentTrimStart # dragState.initialTrimStart
    /\ dragState.currentTrimStart = dragState.currentTrimEnd - minDuration

\* C4: in every reachable state every clip of the store has timelineStart >= 0.
C4_StartOffsetNonNegative ==
    \A i \in DOMAIN clips : clips[i].startOffset >= 0

\* C5: at every instant the resolver selects at most one video clip; when video clips
\* are active it selects an active one whose trackIndex is >= that of every other
\* active video clip, and when none is active it selects none.
C5_TopVideoClipIsTopmost ==
    \A t \in Instants :
        LET active == {i \in DOMAIN clips :
                          clips[i].type = "video" /\ InActiveInterval(clips[i], t)}
            top == topVideoClip(clips, t)
        IN /\ Len(top) <= 1
           /\ active = {} => top = <<>>
           /\ active # {} =>
                /\ Len(top) = 1
                /\ \E i \in active : clips[i] = top[1]
                /\ \A j \in active : top[1].trackIndex >= clips[j].trackIndex

\* C5 witness: two video clips with different trackIndex are active at one instant
C5_Witness ==
    \E t \in Instants : \E i, j \in DOMAIN clips :
        /\ clips[i].type = "video" /\ clips[j].type = "video"
        /\ InActiveInterval(clips[i], t) /\ InActiveInterval(clips[j], t)
        /\ clips[i].trackIndex < clips[j].trackIndex

\* C6: a clip is in the resolver's active set of its kind at t exactly when
\* timelineStart <= t < timelineStart + (trimEnd - trimStart); of two clips of one
\* kind placed back to back, at no instant both are active and at every instant from
\* the first's start to the second's end one of them is.
C6_ActiveIntervalHalfOpen ==
    \A t \in Instants :
        LET video == IdsOf(activeVideoClips(clips, t))
            audio == IdsOf(activeAudioClips(clips, t))
            act == video \cup audio
        IN /\ \A i \in DOMAIN clips :
                 /\ clips[i].id \in video
                       <=> (clips[i].type = "video" /\ InActiveInterval(clips[i], t))
                 /\ clips[i].id \in audio
                       <=> (clips[i].type = "audio" /\ InActiveInterval(clips[i], t))
           /\ \A i, j \in DOMAIN clips :
                 (/\ clips[i].type = clips[j].type
                  /\ clips[i].trimStart < clips[i].trimEnd
                  /\ clips[j].trimStart < clips[j].trimEnd
                  /\ clipEnd(clips[i]) = clips[j].startOffset)
                 => /\ ~(clips[i].id \in act /\ clips[j].id \in act)
                    /\ (clips[i].startOffset <= t /\ t < clipEnd(clips[j]))
                          => (clips[i].id \in act \/ clips[j].id \in act)

\* C6 witness: two clips of one kind back to back, the cursor on their common edge
C6_Witness ==
    \E i, j \in DOMAIN clips :
        /\ clips[i].type = clips[j].type
        /\ clips[i].trimStart < clips[i].trimEnd
        /\ clips[j].trimStart < clips[j].trimEnd
        /\ clipEnd(clips[i]) = clips[j].startOffset
        /\ currentTime = clips[j].startOffset

\* C7: for every clip and every instant of its active interval the source time handed
\* to the renderer lies in [trimStart, trimEnd), and it does not decrease with t.
C7_SourceTimeWithinTrim ==
    \A t \in Instants :
        LET act == IdsOf(activeVideoClips(clips, t)) \cup
                   IdsOf(activeAudioClips(clips, t))
        IN \A i \in DOMAIN clips :
              clips[i].id \in act
              => /\ clips[i].trimStart <= targetSourceTime(clips[i], t)
                 /\ targetSourceTime(clips[i], t) < clips[i].trimEnd
                 /\ \A u \in Instants :
                       (u >= t /\ InActiveInterval(clips[i], u))
                       => targetSourceTime(clips[i], t) <= targetSourceTime(clips[i], u)

\* C7 witness: the cursor is inside a clip whose head is trimmed and which does not
\* start where its trim starts
C7_Witness ==
    \E i \in DOMAIN clips :
        /\ clips[i].trimStart > 0
        /\ clips[i].startOffset # clips[i].trimStart
        /\ InActiveInterval(clips[i], currentTime)
        /\ currentTime > clips[i].startOffset

\* the selected clip is in the store and the cursor is strictly inside its interval
SplitCase ==
    \E i \in SelectedIndex :
        clips[i].startOffset < currentTime /\ currentTime < clipEnd(clips[i])

\* C8: a split with the cursor strictly inside the selected clip replaces it by two
\* clips: the first keeps id and timelineStart and ends at the source split point, the
\* second has a fresh id, starts at the cursor and at the source split point and keeps
\* the original trimEnd; both keep every other field; their intervals are adjacent
\* and cover the original's; the second is selected; every other clip is unchanged.
C8_SplitReplacesByTwoHalves ==
    [][ (Split /\ SplitCase) =>
          \A i \in SelectedIndex :
            LET o == clips[i]
                sp == o.trimStart + (currentTime - o.startOffset)
                second == clips'[Len(clips')]
            IN /\ Len(clips') = Len(clips) + 1
               /\ clips'[i] = [o EXCEPT !.trimEnd = sp]
               /\ second.id \notin IdsOf(clips)
               /\ second = [o EXCEPT !.id = second.id, !.startOffset = currentTime,
                                     !.trimStart = sp]
               /\ clips'[i].startOffset = o.startOffset
               /\ clipEnd(clips'[i]) = second.startOffset
               /\ clipEnd(second) = clipEnd(o)
               /\ selectedClipId' = second.id
               /\ \A k \in DOMAIN clips : k # i => clips'[k] = clips[k]
      ]_vars

\* C8 witness: the two halves of a split clip, the second selected, beside a third clip
C8_Witness ==
    \E i, j, k \in DOMAIN clips :
        /\ i # j /\ k # i /\ k # j
        /\ clips[j].id = selectedClipId
        /\ clips[i].fileUrl = clips[j].fileUrl
        /\ clips[k].fileUrl # clips[i].fileUrl
        /\ clips[i].trimEnd = clips[j].trimStart
        /\ clipEnd(clips[i]) = clips[j].startOffset
        /\ clips[j].startOffset = currentTime
        /\ clips[i].trimStart < clips[i].trimEnd
        /\ clips[j].trimStart < clips[j].trimEnd

\* C9: a split with no clip selected, or with the cursor not strictly inside the
\* selected clip's interval, changes neither the store nor the selection nor the cursor.
C9_SplitOutsideIsNoOp ==
    [][ (Split /\ ~SplitCase) => UNCHANGED <<clips, selectedClipId, currentTime>> ]_vars

\* C9 witness: a clip is selected, the cursor is exactly on its start or exactly on
\* its end, and another event can be handled
C9_Witness ==
    /\ events < MaxEvents
    /\ \E i \in SelectedIndex :
          /\ clips[i].trimStart < clips[i].trimEnd
          /\ currentTime = clipEnd(clips[i])
    /\ \E j \in DOMAIN clips :
          /\ clips[j].trimStart < clips[j].trimEnd
          /\ currentTime = clips[j].startOffset

\* C10: separate-audio on a selected video clip sets isMuted on it and nothing else,
\* and appends one clip with a fresh id, kind audio, trackIndex 0, isMuted false and
\* the original's timelineStart, trimStart, trimEnd, sourceDuration, sourceHandle and
\* volume; every other clip is unchanged; with no video clip selected the store is
\* unchanged.
C10_SeparateAudioDuplicatesOriginal ==
    [][ SeparateAudio =>
          IF \E i \in SelectedIndex : clips[i].type = "video"
          THEN \A i \in SelectedIndex :
                 LET o == clips[i]
                     a == clips'[Len(clips')]
                 IN /\ Len(clips') = Len(clips) + 1
                    /\ clips'[i] = [o EXCEPT !.isMuted = TRUE]
                    /\ a.id \notin IdsOf(clips)
                    /\ a.type = "audio" /\ a.trackIndex = 0 /\ a.isMuted = FALSE
                    /\ a.startOffset = o.startOffset
                    /\ a.trimStart = o.trimStart /\ a.trimEnd = o.trimEnd
                    /\ a.duration = o.duration /\ a.fileUrl = o.fileUrl
                    /\ a.volume = o.volume
                    /\ \A k \in DOMAIN clips : k # i => clips'[k] = clips[k]
          ELSE clips' = clips
      ]_vars

\* C10 witness: a muted video clip, the unmuted audio clip separated from it and
\* a third clip
C10_Witness ==
    \E i, j, k \in DOMAIN clips :
        /\ k # i /\ k # j
        /\ clips[i].type = "video" /\ clips[i].isMuted
        /\ clips[j].type = "audio" /\ ~clips[j].isMuted
        /\ clips[j].fileUrl = clips[i].fileUrl
        /\ clips[j].name = <<"Audio from">> \o clips[i].name
        /\ clips[j].startOffset = clips[i].startOffset
        /\ clips[k].fileUrl # clips[i].fileUrl

\* C11: a pointer-move of an active session, in each of the three modes, changes
\* only the session's live snapshot: the clip store, and every other part of the
\* state, is after the pointer-move what it was before it (so the pointer-moves of
\* a session leave the store as it was at drag start), and of the snapshot only
\* the live values change.
C11_PointerMoveLeavesStore ==
    [][ AnyMouseMove =>
          /\ clips' = clips
          /\ UNCHANGED <<currentTime, isPlaying, selectedClipId, isGenerating, aiMode,
                         isScrubbing, pendingImport, gen, nextId, nextUrl>>
          /\ dragState'.mode = dragState.mode
          /\ dragState'.clipId = dragState.clipId
          /\ dragState'.startX = dragState.startX
          /\ dragState'.startY = dragState.startY
          /\ dragState'.initialStartOffset = dragState.initialStartOffset
          /\ dragState'.initialTrimStart = dragState.initialTrimStart
          /\ dragState'.initialTrimEnd = dragState.initialTrimEnd
          /\ dragState'.initialTrackIndex = dragState.initialTrackIndex
      ]_vars

\* C11 witness: a session whose live values have left the drag-start values while
\* its clip still has them in the store
C11_Witness ==
    /\ ListenersAttached
    /\ \/ dragState.currentStartOffset # dragState.initialStartOffset
       \/ dragState.currentTrackIndex # dragState.initialTrackIndex
       \/ dragState.currentTrimEnd # dragState.initialTrimEnd
    /\ LET c == DraggedClip(clips)
       IN /\ c.startOffset = dragState.initialStartOffset
          /\ c.trackIndex = dragState.initialTrackIndex
          /\ c.trimStart = dragState.initialTrimStart
          /\ c.trimEnd = dragState.initialTrimEnd

\* C12: on release the commit writes to the target clip only the fields of the
\* session's mode (move: timelineStart and trackIndex; resize-left: trimStart and
\* timelineStart; resize-right: trimEnd), each with the session's live value; every
\* other field of the target keeps the value the store has at commit time, and
\* every other clip is unchanged.
C12_CommitWritesModeFields ==
    [][ MouseUp =>
          LET i == FindIndex(clips, dragState.clipId)
              o == clips[i]
          IN /\ Len(clips') = Len(clips)
             /\ \A k \in DOMAIN clips : k # i => clips'[k] = clips[k]
             /\ dragState.mode = "move" =>
                   clips'[i] = [o EXCEPT !.startOffset = dragState.currentStartOffset,
                                         !.trackIndex = dragState.currentTrackIndex]
             /\ dragState.mode = "resize-left" =>
                   clips'[i] = [o EXCEPT !.trimStart = dragState.currentTrimStart,
                                         !.startOffset = dragState.currentStartOffset]
             /\ dragState.mode = "resize-right" =>
                   clips'[i] = [o EXCEPT !.trimEnd = dragState.currentTrimEnd]
      ]_vars

\* C12 witness: a session about to be released whose clip has, in the store, a value
\* the mode does not write and that differs from the drag-start snapshot, beside
\* another clip
C12_Witness ==
    /\ events < MaxEvents
    /\ ListenersAttached
    /\ Len(clips) >= 2
    /\ LET c == DraggedClip(clips)
       IN \/ /\ dragState.mode = "move"
             /\ c.trimStart # dragState.initialTrimStart
          \/ /\ dragState.mode = "resize-left"
             /\ c.trimEnd # dragState.initialTrimEnd
          \/ /\ dragState.mode = "resize-right"
             /\ c.trimStart # dragState.initialTrimStart

\* C13: whenever a session is active, a pointer release returns it to idle and
\* updates the store once with the session's live values, whatever happened in the
\* store during the drag; no session stays active after the release.
C13_ReleaseEndsSession ==
    [][ (dragState.mode # "none" /\ (MouseUp \/ MouseUpNoListener)) =>
          /\ dragState' = NoDrag
          /\ HasClip(clips, dragState.clipId) =>
                LET n == DraggedClip(clips')
                IN /\ dragState.mode = "move" =>
                         /\ n.startOffset = dragState.currentStartOffset
                         /\ n.trackIndex = dragState.currentTrackIndex
                   /\ dragState.mode = "resize-left" =>
                         /\ n.trimStart = dragState.currentTrimStart
                         /\ n.startOffset = dragState.currentStartOffset
                   /\ dragState.mode = "resize-right" =>
                         n.trimEnd = dragState.currentTrimEnd
      ]_vars

\* a callback of a generation call adds its clip to the store
GenerationAddsClip ==
    /\ (\E d \in GenDurations : TempElLoadedMetadata(d)) \/ FallbackTimer
    /\ Len(clips') = Len(clips) + 1

\* C14: the clip a successful generation adds has timelineStart equal to the cursor
\* at the moment of completion, trimStart = 0, trimEnd = sourceDuration, and the
\* requested media kind.
C14_GeneratedClipAtCompletionCursor ==
    [][ GenerationAddsClip =>
          LET n == clips'[Len(clips')]
          IN /\ n.startOffset = currentTime
             /\ n.trimStart = 0
             /\ n.trimEnd = n.duration
             /\ n.type = gen.mode
      ]_vars

\* C15: a failing generation request adds no clip and changes neither the store nor
\* the cursor nor the selection, and isGenerating returns to false with no call in
\* flight, so that a new request can be submitted.
C15_FailureLeavesStore ==
    [][ GenerateFails =>
          /\ clips' = clips
          /\ currentTime' = currentTime
          /\ selectedClipId' = selectedClipId
          /\ isGenerating' = FALSE
          /\ gen'.phase = "idle"
      ]_vars

\* C15 witness: a request is in flight over a store with a selected clip, the cursor
\* off zero, and the failure can be handled
C15_Witness ==
    /\ events < MaxEvents
    /\ gen.phase = "awaiting"
    /\ isGenerating
    /\ SelectedIndex # {}
    /\ currentTime > 0

\* ids that no clip of the store has: null, the ids of deleted clips, an unused id
AbsentIds == (0 .. nextId) \ IdsOf(clips)

\* updates of the three shapes a commit writes
SampleUpdates ==
    {[startOffset |-> 3, trackIndex |-> 1], [trimStart |-> 1, startOffset |-> 3],
     [trimEnd |-> 3]}

\* C16: an update whose target id is not in the store leaves the store unchanged, a
\* delete whose selected id is not in the store removes no clip, and the release of
\* a session whose target is not in the store leaves the store unchanged; none
\* of them fails.
C16_MissingTargetIgnored ==
    /\ [](\A id \in AbsentIds :
            /\ \A u \in SampleUpdates : handleUpdateClip(clips, id, u) = clips
            /\ handleUpdateClip(clips, id, commitUpdates(dragState)) = clips
            /\ handleDeleteClip(clips, id).clips = clips)
    /\ [][ /\ (DeleteClip /\ selectedClipId \in AbsentIds) => clips' = clips
           /\ MouseUpNoListener => clips' = clips
         ]_vars

\* C16 witness: the target of the session was deleted from a store that still has
\* clips, nothing is selected, and a release or a delete can be handled
C16_Witness ==
    /\ events < MaxEvents
    /\ clips # <<>>
    /\ dragState.mode # "none"
    /\ dragState.clipId \in AbsentIds
    /\ selectedClipId \in AbsentIds

C18_IdAndDurationFixed ==
    [][ IF Len(clips') < Len(clips)
        THEN \A j \in DOMAIN clips' : \E i \in DOMAIN clips :
                /\ clips'[j].id = clips[i].id
                /\ clips'[j].duration = clips[i].duration
        ELSE \A i \in DOMAIN clips :
                /\ clips'[i].id = clips[i].id
                /\ clips'[i].duration = clips[i].duration
      ]_vars

\* C18 witness: a clip that was moved off track 0 and trimmed at its end, in a store
\* whose ids are distinct
C18_Witness ==
    /\ \E i \in DOMAIN clips :
          clips[i].trimEnd < clips[i].duration /\ clips[i].trackIndex > 0
    /\ Cardinality(IdsOf(clips)) = Len(clips)

\* vertical pointer positions from far above to far below the mouse-down position
ProbeYs == {DownY + dy : DownY \in DownYs, dy \in {-400, -108, -37, -36, 35, 36, 108, 400}}

\* horizontal pointer positions on both sides of the mouse-down position
ProbeXs == {DownX + dx : DownX \in DownXs, dx \in {-400, -7, 0, 7, 400}}

\* C19: in every reachable state every clip's trackIndex is 0, 1 or 2, and for any
\* vertical pointer delta the live track of a move session, which the commit
\* writes, is 0, 1 or 2.
C19_TrackIndexInRange ==
    /\ \A i \in DOMAIN clips : clips[i].trackIndex \in {0, 1, 2}
    /\ dragState.mode # "none" => dragState.currentTrackIndex \in {0, 1, 2}
    /\ (ListenersAttached /\ dragState.mode = "move") =>
          \A x \in ProbeXs, y \in ProbeYs :
             handleMouseMove(dragState, DraggedClip(clips), x, y).currentTrackIndex
                \in {0, 1, 2}

\* C19 witness: a move session on a clip that a commit has put on a track other than 0
C19_Witness ==
    /\ ListenersAttached
    /\ dragState.mode = "move"
    /\ dragState.initialTrackIndex > 0
    /\ DraggedClip(clips).trackIndex > 0

\* the live start and track the claim gives for a move session and a pointer at
\* (x, y): max(0, initialStart + dx/20) in time units, and initialTrack plus dy/72
\* rounded to the nearest whole number (halves upward), clamped to 0..2
ExpectedMove(ds, x, y) ==
    LET dx == x - ds.startX
        dy == y - ds.startY
        start == ds.initialStartOffset + (dx * UnitsPerSecond) \div 20
        jump == CHOOSE k \in -6 .. 6 : 144 * k - 72 <= 2 * dy /\ 2 * dy < 144 * k + 72
        track == ds.initialTrackIndex + jump
    IN [liveStart |-> IF start < 0 THEN 0 ELSE start,
        liveTrack |-> IF track < 0 THEN 0 ELSE IF track > 2 THEN 2 ELSE track]

\* the live values of ds are those the claim gives for the snapshot of snap and a
\* pointer at (x, y)
MoveAsExpected(ds, snap, x, y) ==
    LET e == ExpectedMove(snap, x, y)
    IN /\ ds.currentStartOffset = e.liveStart
       /\ ds.currentTrackIndex = e.liveTrack
       /\ ds.currentTrimStart = snap.initialTrimStart
       /\ ds.currentTrimEnd = snap.initialTrimEnd

\* C20: in move mode, for every pointer position, the live values are
\* liveStart = max(0, initialStart + dx/20) and
\* liveTrack = clamp(initialTrack + round(dy/72), 0, 2), computed from the drag-start
\* snapshot and not from the previous live values, and the live trimStart and
\* trimEnd stay those of the snapshot.
C20_MoveFromSnapshot ==
    /\ [](dragState.mode = "move" =>
            /\ dragState.currentTrimStart = dragState.initialTrimStart
            /\ dragState.currentTrimEnd = dragState.initialTrimEnd
            /\ ListenersAttached =>
                  \A x \in ProbeXs, y \in ProbeYs :
                     MoveAsExpected(handleMouseMove(dragState, DraggedClip(clips), x, y),
                                    dragState, x, y))
    /\ [][ dragState.mode = "move" =>
             \A x \in MoveXs, y \in MoveYs :
                MouseMove(x, y) => MoveAsExpected(dragState', dragState, x, y)
         ]_vars

\* C20 witness: a move session whose live start and live track have both left the
\* snapshot's after a pointer-move, with another pointer-move to come
C20_Witness ==
    /\ events < MaxEvents
    /\ ListenersAttached
    /\ dragState.mode = "move"
    /\ dragState.currentStartOffset # dragState.initialStartOffset
    /\ dragState.currentTrackIndex # dragState.initialTrackIndex

\* the timeline end of the live clip of session ds, and of its drag-start snapshot
LiveEnd(ds) == ds.currentStartOffset + (ds.currentTrimEnd - ds.currentTrimStart)
InitialEnd(ds) == ds.initialStartOffset + (ds.initialTrimEnd - ds.initialTrimStart)

\* ds keeps the tail anchored: trimEnd is the snapshot's, the start moved by the
\* delta applied to trimStart, so the live timeline end is the drag-start one
TailAnchored(ds) ==
    /\ ds.currentTrimEnd = ds.initialTrimEnd
    /\ ds.currentStartOffset - ds.initialStartOffset
          = ds.currentTrimStart - ds.initialTrimStart
    /\ LiveEnd(ds) = InitialEnd(ds)

\* C21: resize-left keeps the clip's tail anchored: in every state of a resize-left
\* session, and for every pointer position, the live timeline end
\* liveStart + (trimEnd - liveTrimStart) equals the drag-start timeline end, the
\* start having moved by exactly the delta applied to trimStart, trimEnd untouched.
C21_ResizeLeftAnchorsTail ==
    dragState.mode = "resize-left" =>
        /\ TailAnchored(dragState)
        /\ ListenersAttached =>
              \A x \in ProbeXs \cup MoveXs, y \in MoveYs :
                 TailAnchored(handleMouseMove(dragState, DraggedClip(clips), x, y))

\* C21 witness: a resize-left session whose pointer-move has changed trimStart and
\* the start
C21_Witness ==
    /\ dragState.mode = "resize-left"
    /\ dragState.currentTrimStart # dragState.initialTrimStart
    /\ dragState.currentStartOffset # dragState.initialStartOffset

\* C22: split is idempotent at a fixed cursor: where a split succeeds, a second
\* split with the cursor and the selection the first one left changes neither the
\* store nor the selection.
C22_SplitIdempotent ==
    /\ [](SplitCase =>
            LET once == handleSplit(clips, selectedClipId, currentTime, nextId)
                twice == handleSplit(once.clips, once.selectedClipId, currentTime,
                                     nextId + 1)
            IN once.clips # clips /\ twice = once)
    /\ [][ (Split /\ SplitCase) =>
             handleSplit(clips', selectedClipId', currentTime', nextId')
                = [clips |-> clips', selectedClipId |-> selectedClipId']
         ]_vars

\* C22 witness: a split has just happened (its second half is selected and starts
\* at the cursor) and a second split can be handled
C22_Witness ==
    /\ events < MaxEvents
    /\ \E i \in DOMAIN clips, j \in SelectedIndex :
          /\ i # j
          /\ clips[i].fileUrl = clips[j].fileUrl
          /\ clips[i].trimEnd = clips[j].trimStart
          /\ clips[i].trimStart < clips[i].trimEnd
          /\ clipEnd(clips[i]) = clips[j].startOffset
          /\ clips[j].startOffset = currentTime
          /\ currentTime < clipEnd(clips[j])

\* the store the claim gives for adjustTrim(sd, ed) on store cs with selection sel
ExpectedTrim(cs, sel, sd, ed) ==
    IF \A k \in DOMAIN cs : cs[k].id # sel
    THEN cs
    ELSE LET i == CHOOSE k \in DOMAIN cs : cs[k].id = sel
             a == IF cs[i].trimStart + sd < 0 THEN 0 ELSE cs[i].trimStart + sd
             b == IF cs[i].trimEnd + ed > cs[i].duration
                  THEN cs[i].duration ELSE cs[i].trimEnd + ed
         IN IF a >= b THEN cs
            ELSE [cs EXCEPT ![i] = [cs[i] EXCEPT !.trimStart = a, !.trimEnd = b]]

\* the nudges tried on every reachable store
ProbeDeltas == {-TrimStep, 0, TrimStep}

\* C23: adjustTrim(startDelta, endDelta) on the selected clip either sets exactly
\* trimStart := max(0, trimStart + startDelta) and
\* trimEnd := min(sourceDuration, trimEnd + endDelta) and leaves every other field
\* and clip unchanged, or, when these values have trimStart >= trimEnd or nothing is
\* selected, leaves the whole store unchanged.
C23_TrimAllOrNothing ==
    /\ [](\A sd \in ProbeDeltas, ed \in ProbeDeltas :
            adjustTrim(clips, selectedClipId, sd, ed)
               = ExpectedTrim(clips, selectedClipId, sd, ed))
    /\ [][ /\ TrimButton(TrimStep, 0) =>
                clips' = ExpectedTrim(clips, selectedClipId, TrimStep, 0)
           /\ TrimButton(0, -TrimStep) =>
                clips' = ExpectedTrim(clips, selectedClipId, 0, -TrimStep)
         ]_vars

\* C23 witness: beside a clip that a nudge would trim, a selected clip on which it
\* would collapse the range, and a nudge can be handled
C23_Witness ==
    /\ events < MaxEvents
    /\ \E i \in SelectedIndex, j \in DOMAIN clips :
          /\ clips[i].trimStart + TrimStep >= clips[i].trimEnd
          /\ clips[j].trimStart + TrimStep < clips[j].trimEnd

\* the ids of the clips active in the audio channel at cursor t of store cs
ActiveAudioIds(cs, t) ==
    {cs[k].id : k \in {j \in DOMAIN cs : cs[j].type = "audio" /\ InActiveInterval(cs[j], t)}}

ProbeDrifts == {-SyncTolerance - 1, -SyncTolerance, -1, 0, 1, SyncTolerance,
                SyncTolerance + 1}

\* the states a media element may be in when a sync effect runs for clip c with
\* target source time target: no source, the clip's source or another one, and a
\* position at each probed drift from the target
ProbeElements(c, target) ==
    {[src |-> u, currentTime |-> target + d, loaded |-> FALSE, seeked |-> FALSE] :
        u \in {NULL, c.fileUrl, nextUrl}, d \in ProbeDrifts}

\* one sync run from el for clip c at the cursor leaves the element on the clip's
\* source within the tolerance of the target, seeks exactly when the source was just
\* loaded or the drift exceeded the tolerance, and otherwise keeps the position
SyncWithinTolerance(el, c) ==
    LET target == c.trimStart + (currentTime - c.startOffset)
        drift == IF el.currentTime >= target THEN el.currentTime - target
                                             ELSE target - el.currentTime
        r == syncElement(el, c, currentTime)
    IN /\ r.src = c.fileUrl
       /\ r.currentTime - target <= SyncTolerance
       /\ target - r.currentTime <= SyncTolerance
       /\ r.loaded = (el.src # c.fileUrl)
       /\ r.seeked = (el.src # c.fileUrl \/ drift > SyncTolerance)
       /\ r.seeked => r.currentTime = target
       /\ ~r.seeked => r.currentTime = el.currentTime

\* C25: after every sync step, for the active video layer and for each active audio
\* layer, the renderer's playback position differs from the source time computed for
\* the cursor by at most 0.3 s: a seek is forced when the source was just loaded or
\* the drift exceeds 0.3 s, and none is issued when the source is unchanged and the
\* drift is at most 0.3 s.
C25_SyncKeepsDriftWithinTolerance ==
    LET top == topVideoClip(clips, currentTime)
        audio == activeAudioClips(clips, currentTime)
    IN /\ top # <<>> =>
            \A el \in ProbeElements(top[1], targetSourceTime(top[1], currentTime)) :
               SyncWithinTolerance(el, top[1])
       /\ \A k \in DOMAIN audio :
            \A el \in ProbeElements(audio[k], targetSourceTime(audio[k], currentTime)) :
               SyncWithinTolerance(el, audio[k])

\* C25 witness: the cursor is strictly inside a trimmed video clip that is on top and
\* inside an active audio clip
C25_Witness ==
    LET top == topVideoClip(clips, currentTime)
    IN /\ top # <<>>
       /\ top[1].trimStart > 0
       /\ top[1].startOffset < currentTime
       /\ activeAudioClips(clips, currentTime) # <<>>

\* a callback of the main clock's interval runs
AnyClockTick == ClockTick \/ StaleClockTick

\* C26: the playback clock changes the cursor only while isPlaying is true: every
\* tick happens in the playing state and advances the cursor by exactly 0.1 s from
\* its current value, none happens in the paused state, and every other change of
\* the cursor is a seek, a scrub, seek-to-start, seek-to-end or the completion of an
\* import.
C26_ClockAdvancesByQuantumWhilePlaying ==
    [][ /\ AnyClockTick => isPlaying /\ currentTime' = currentTime + ClockQuantum
        /\ currentTime' # currentTime =>
              \/ AnyClockTick
              \/ SeekToStart
              \/ SeekToEnd
              \/ \E x \in ScrubXs : ScrubStart(x) \/ ScrubMove(x)
              \/ FileLoaded
     ]_vars

\* a seek: a mouse-down or a pointer-move of a scrub
AnySeek == \E x \in ScrubXs : ScrubStart(x) \/ ScrubMove(x)

\* C27: a seek is never lost to the clock: once a seek to s is handled during
\* playback, the callback of the interval then alive writes s plus one quantum, so
\* that after the seek the cursor is s plus a whole number of quanta and no tick
\* writes a value computed from the cursor as it was before the seek.
C27_SeekNotLostToClock ==
    [][ (isPlaying /\ AnySeek) =>
            /\ interval'.set
            /\ interval'.currentTime + ClockQuantum = currentTime' + ClockQuantum
     ]_vars

\* the call in flight has delivered its clip: its url is loading and isGenerating
\* has been reset
AlreadyDelivered == gen.phase = "loading" /\ ~isGenerating

\* C28: each successful generation adds exactly one clip, for video and for audio,
\* in every order of the metadata-loaded callback and the one-second fallback
\* timer: a callback adds a clip only for a call that has not delivered one, and
\* when the last callback of a call has run the call has delivered.
C28_OneClipPerGeneration ==
    [][ /\ GenerationAddsClip => ~AlreadyDelivered
        /\ (gen.phase = "loading" /\ gen'.phase = "idle") => ~isGenerating'
     ]_vars

\* the editing and seeking gestures the state allows are handled
EditingEnabled ==
    /\ ENABLED Split
    /\ ENABLED DeleteClip
    /\ ENABLED SeparateAudio
    /\ ENABLED TrimButton(TrimStep, 0)
    /\ ENABLED SeekToStart
    /\ (isScrubbing \/ ListenersAttached) \/ ENABLED (\E x \in ScrubXs : ScrubStart(x))
    /\ (isScrubbing \/ ListenersAttached \/ clips = <<>>) \/
          ENABLED (\E i \in DOMAIN clips : StartDrag("move", i, 200, 100))
    /\ ~ListenersAttached \/ ENABLED MouseUp

ReturningSessions(mode, c, x0, y0) ==
    LET ds0 == startDrag(mode, c, x0, y0)
    IN {ds0, handleMouseMove(ds0, c, x0, y0)} \cup
       {handleMouseMove(handleMouseMove(ds0, c, x, y), c, x0, y0) :
           x \in MoveXs, y \in MoveYs}

\* C30: a drag session whose pointer is back at its starting position when it is
\* released commits the drag-start values: for every clip of a reachable store a
\* session can start on, in each of the three modes, with or without pointer-moves
\* in between, the store after the release equals the store before the session.
C30_ZeroDeltaDragLeavesStore ==
    (~isScrubbing /\ ~ListenersAttached) =>
        \A i \in DOMAIN clips, mode \in DragModes, x0 \in DownXs, y0 \in DownYs :
            \A ds \in ReturningSessions(mode, clips[i], x0, y0) :
                handleUpdateClip(clips, clips[i].id, commitUpdates(ds)) = clips

\* C31: in every reachable state the selection is empty or the id of a clip of the
\* store: delete removes exactly the selected clip and clears the selection, a
\* successful split selects the new second half, and no other step removes a clip
\* or moves the selection to an id that is not in the store.
C31_SelectionInStore ==
    /\ [](selectedClipId = NULL \/ selectedClipId \in IdsOf(clips))
    /\ [][ /\ (DeleteClip /\ selectedClipId # NULL) =>
                /\ clips' = SelectSeq(clips, LAMBDA c : c.id # selectedClipId)
                /\ Len(clips') = Len(clips) - 1
                /\ selectedClipId' = NULL
           /\ (Split /\ SplitCase) =>
                /\ selectedClipId' \in IdsOf(clips') \ IdsOf(clips)
                /\ clips'[Len(clips')].id = selectedClipId'
                /\ clips'[Len(clips')].startOffset = currentTime
           /\ ~(IdsOf(clips) \subseteq IdsOf(clips')) => DeleteClip
           /\ selectedClipId' # selectedClipId =>
                selectedClipId' = NULL \/ selectedClipId' \in IdsOf(clips')
         ]_vars

\* C31 witness: the selected clip has been deleted from a store that keeps another
\* clip, and nothing is selected
C31_Witness ==
    /\ selectedClipId = NULL
    /\ clips # <<>>
    /\ \E id \in 1 .. (nextId - 1) : id \notin IdsOf(clips)

\* the pointer positions tried for a scrub, left of the ruler's origin and on it
ProbeScrubXs == {-400, -21, -20, -1, 0, 1, 400}

\* C32: the timeline cursor is never negative: in every state reached by clock
\* ticks, scrubbing at any pointer position, seek-to-start, seek-to-end and import
\* completion, currentTime >= 0; so is every value a pending callback will compute
\* the cursor from, and the time the scrub under way seeks to at any probed position.
C32_CursorNonNegative ==
    /\ currentTime >= 0
    /\ totalDuration(clips) >= 0
    /\ interval.set => interval.currentTime + ClockQuantum >= 0
    /\ pendingImport.active => pendingImport.currentTime + pendingImport.duration >= 0
    /\ isScrubbing => \A x \in ProbeScrubXs \cup ScrubXs : scrubTime(x) >= 0

\* C32 witness: a scrub holds the cursor at 0 although a clip starts later, so that
\* the cursor has been beyond 0 before
C32_Witness ==
    /\ isScrubbing
    /\ currentTime = 0
    /\ \E i \in DOMAIN clips : clips[i].startOffset > 0

\* the maximum over the clips of cs of timelineStart + (trimEnd - trimStart), 0 for
\* the empty store
MaxClipEnd(cs) ==
    IF cs = <<>> THEN 0
    ELSE CHOOSE m \in {clipEnd(cs[i]) : i \in DOMAIN cs} :
            \A i \in DOMAIN cs : clipEnd(cs[i]) <= m

\* C33: seek-to-end sets the cursor to the maximum over all clips of
\* timelineStart + (trimEnd - trimStart), 0 for an empty store, and at that cursor
\* no clip is active: the resolver yields no video layer and an empty audio set,
\* for every store.
C33_SeekToEndBeyondEveryClip ==
    /\ [](LET end == totalDuration(clips)
          IN /\ end = MaxClipEnd(clips)
             /\ topVideoClip(clips, end) = <<>>
             /\ activeVideoClips(clips, end) = <<>>
             /\ activeAudioClips(clips, end) = <<>>)
    /\ [][ SeekToEnd =>
             /\ currentTime' = MaxClipEnd(clips)
             /\ clips' = clips
             /\ topVideoClip(clips', currentTime') = <<>>
             /\ activeAudioClips(clips', currentTime') = <<>>
             /\ audioRefs' = {}
         ]_vars

\* cs2 is cs with one clip appended
AppendsOne(cs, cs2) == Len(cs2) = Len(cs) + 1 /\ SubSeq(cs2, 1, Len(cs)) = cs

\* cs2 keeps every clip of cs, by id and at its place
KeepsEveryClip(cs, cs2) ==
    /\ Len(cs2) >= Len(cs)
    /\ \A k \in DOMAIN cs : cs2[k].id = cs[k].id

\* C34: clips leave the store only through delete: import completion, generation
\* completion, split, separate-audio, trim-adjust and drag commit keep every clip
\* of the store, whatever completions and edits came between; a completion appends
\* and leaves the existing clips unchanged; each import completion appends exactly
\* one clip, with a fresh id, on track 0, with trimStart = 0 and
\* trimEnd = sourceDuration.
C34_ClipsLeaveOnlyByDelete ==
    [][ /\ KeepsEveryClip(clips, clips') \/ (DeleteClip /\ selectedClipId # NULL)
        /\ DeleteClip => \A k \in DOMAIN clips' : \E j \in DOMAIN clips : clips'[k] = clips[j]
        /\ (Split \/ SeparateAudio) =>
              /\ Len(clips') \in {Len(clips), Len(clips) + 1}
              /\ \A k \in DOMAIN clips : clips[k].id # selectedClipId => clips'[k] = clips[k]
        /\ (TrimButton(TrimStep, 0) \/ TrimButton(0, -TrimStep)) =>
              /\ Len(clips') = Len(clips)
              /\ \A k \in DOMAIN clips : clips[k].id # selectedClipId => clips'[k] = clips[k]
        /\ MouseUp =>
              /\ Len(clips') = Len(clips)
              /\ \A k \in DOMAIN clips : clips[k].id # dragState.clipId => clips'[k] = clips[k]
        /\ GenerationAddsClip => AppendsOne(clips, clips')
        /\ FileLoaded =>
              /\ AppendsOne(clips, clips')
              /\ LET c == clips'[Len(clips')]
                 IN /\ c.id \notin IdsOf(clips)
                    /\ c.trackIndex = 0
                    /\ c.trimStart = 0
                    /\ c.trimEnd = c.duration
                    /\ c.duration = pendingImport.duration
     ]_vars

\* C34 witness: an import has completed into a store whose first clip was trimmed,
\* while a generation request is in flight
C34_Witness ==
    /\ Len(clips) >= 2
    /\ clips[1].trimStart > 0
    /\ clips[Len(clips)].name = <<"file">>
    /\ clips[Len(clips)].trimStart = 0
    /\ ~pendingImport.active
    /\ isGenerating

====
